---- MODULE Spec2Model ----
(***************************************************************************)
(* A model of the imageboard's persistence layer (src/src/main.rs): the    *)
(* key scheme thread_<id> / reply_<parent>_<id> inside one ordered store,  *)
(* the count-then-increment id allocation, the touch of a thread by a      *)
(* reply, and the homepage pagination.                                     *)
(*                                                                         *)
(* Byte strings are sequences of one-character strings, so that a prefix   *)
(* scan is a real prefix test on the formatted key.  A JSON object is the  *)
(* sequence of its <<name, value>> members in the order serde writes them. *)
(* Option<T> is <<>> (None) or <<v>> (Some(v)).                            *)
(*                                                                         *)
(* Specifications: Spec (two workers, the POST handlers), SpecSeq (one     *)
(* worker, all handlers), SpecPage (one worker, many threads, homepage),   *)
(* SpecUpload (two workers, thread forms with an image field), SpecStored  *)
(* (one worker over a store that already holds records, some malformed),   *)
(* SpecCrash (two workers and process crashes).                            *)
(***************************************************************************)
EXTENDS Integers, Sequences, FiniteSets, TLC

VARIABLES
    db,         \* the sled tree: key -> value bytes
    clock,      \* what Utc::now().timestamp() returns now
    pc,         \* per worker: the handler step it is at
    frame,      \* per worker: the handler's local variables
    resp,       \* per worker: the response to its last request, once sent
    threadLog,  \* ids of the thread creations answered with SeeOther, in order
    replyLog,   \* <<parent_id, reply_id>> of the reply creations answered with SeeOther, in order
    posts,      \* how many POST forms have been received
    files       \* the upload directory: file id -> chunks written and chunks sent

vars == <<db, clock, pc, frame, resp, threadLog, replyLog, posts, files>>

----------------------------------------------------------------------------
(* Bounds of the model *)

MaxClock == 1          \* Spec: the clock ticks at most this many times
MaxPosts == 3          \* Spec: at most this many POST forms are received
MaxSeqClock == 1       \* SpecSeq: as MaxClock
MaxSeqPosts == 4       \* SpecSeq: as MaxPosts
MaxPageClock == 1      \* SpecPage: as MaxClock
MaxPagePosts == 25     \* SpecPage: as MaxPosts
MaxUploadPosts == 3    \* SpecUpload: as MaxPosts
MaxCrashClock == 1     \* SpecCrash: as MaxClock
MaxCrashPosts == 3     \* SpecCrash: as MaxPosts
MaxStoredClock == 1    \* SpecStored: as MaxClock
MaxStoredPosts == 3    \* SpecStored: as MaxPosts

Procs == {1, 2}

----------------------------------------------------------------------------
(* Strings and formatting *)

None == <<>>
Some(v) == <<v>>

Min(a, b) == IF a < b THEN a ELSE b

\* The characters the keys are made of, in byte order: '-' < digits < '_' < letters.
Alphabet ==
    <<"-", "0", "1", "2", "3", "4", "5", "6", "7", "8", "9", "_",
      "a", "d", "e", "h", "l", "p", "r", "t", "y">>

CharOrd == [c \in {Alphabet[i] : i \in 1..Len(Alphabet)} |->
               CHOOSE i \in 1..Len(Alphabet) : Alphabet[i] = c]

DigitChar(d) == Alphabet[d + 2]

\* format!("{}", n) of an i32
RECURSIVE DecNat(_)
DecNat(n) == IF n < 10 THEN <<DigitChar(n)>> ELSE DecNat(n \div 10) \o <<DigitChar(n % 10)>>

Dec(n) == IF n < 0 THEN <<"-">> \o DecNat(-n) ELSE DecNat(n)

THREAD_PREFIX == <<"t", "h", "r", "e", "a", "d", "_">>
REPLY_PREFIX == <<"r", "e", "p", "l", "y", "_">>

\* format!("thread_{}", thread_id)
thread_key(thread_id) == THREAD_PREFIX \o Dec(thread_id)

\* format!("reply_{}_{}", parent_id, reply_id)
reply_key(parent_id, reply_id) == REPLY_PREFIX \o Dec(parent_id) \o <<"_">> \o Dec(reply_id)

\* format!("reply_{}", parent_id): the prefix get_replies and count_replies scan
reply_scan_prefix(parent_id) == REPLY_PREFIX \o Dec(parent_id)

IsWhitespace(c) == c = " "

\* str::trim
RECURSIVE TrimStart(_)
TrimStart(s) == IF s # <<>> /\ IsWhitespace(Head(s)) THEN TrimStart(Tail(s)) ELSE s

RECURSIVE TrimEnd(_)
TrimEnd(s) ==
    IF s # <<>> /\ IsWhitespace(s[Len(s)]) THEN TrimEnd(SubSeq(s, 1, Len(s) - 1)) ELSE s

Trim(s) == TrimEnd(TrimStart(s))

----------------------------------------------------------------------------
(* serde_json *)

Thread(id, title, message, last_updated, image_url) ==
    [id |-> id, title |-> title, message |-> message,
     last_updated |-> last_updated, image_url |-> image_url]

Reply(id, message) == [id |-> id, message |-> message]

\* serde_json::to_vec(&thread): the members in declaration order; None is null
ser_thread(t) ==
    << <<"id", t.id>>, <<"title", t.title>>, <<"message", t.message>>,
       <<"last_updated", t.last_updated>>, <<"image_url", t.image_url>> >>

\* serde_json::to_vec(&reply)
ser_reply(r) == << <<"id", r.id>>, <<"message", r.message>> >>

Members(bytes, name) == {i \in 1..Len(bytes) : bytes[i][1] = name}

Member(bytes, name) == bytes[CHOOSE i \in Members(bytes, name) : TRUE][2]

\* a Thread whose missing members take default values instead of failing
de_thread_default(bytes) ==
    LET member(name, default) ==
            IF Members(bytes, name) = {} THEN default ELSE Member(bytes, name)
    IN Some(Thread(member("id", 0), member("title", <<>>), member("message", <<>>),
                   member("last_updated", 0), member("image_url", None)))

\* serde_json::from_slice::<Thread>: every required member exactly once, the
\* optional image_url at most once (absent is None), unknown members ignored.
de_thread(bytes) ==
    IF /\ \A name \in {"id", "title", "message", "last_updated"} :
              Cardinality(Members(bytes, name)) = 1
       /\ Cardinality(Members(bytes, "image_url")) <= 1
    THEN Some(Thread(Member(bytes, "id"), Member(bytes, "title"), Member(bytes, "message"),
                     Member(bytes, "last_updated"),
                     IF Members(bytes, "image_url") = {} THEN None
                     ELSE Member(bytes, "image_url")))
    ELSE None

\* serde_json::from_slice::<Reply>
de_reply(bytes) ==
    IF \A name \in {"id", "message"} : Cardinality(Members(bytes, name)) = 1
    THEN Some(Reply(Member(bytes, "id"), Member(bytes, "message")))
    ELSE None

----------------------------------------------------------------------------
(* sled *)

IsPrefix(p, k) == Len(p) <= Len(k) /\ SubSeq(k, 1, Len(p)) = p

\* byte-wise lexicographic order of two keys: decided at the first position
\* where they differ, and by length when one is a prefix of the other
KeyLess(a, b) ==
    LET diff == {i \in 1..Min(Len(a), Len(b)) : a[i] # b[i]}
    IN IF diff = {} THEN Len(a) < Len(b)
       ELSE LET i == CHOOSE i \in diff : \A j \in diff : i <= j
            IN CharOrd[a[i]] < CharOrd[b[i]]

RECURSIVE InKeyOrder(_)
InKeyOrder(S) ==
    IF S = {} THEN <<>>
    ELSE LET k == CHOOSE k \in S : TRUE
             rest == InKeyOrder(S \ {k})
             at == Cardinality({i \in 1..Len(rest) : KeyLess(rest[i], k)})
         IN SubSeq(rest, 1, at) \o <<k>> \o SubSeq(rest, at + 1, Len(rest))

\* Db::scan_prefix: the (key, value) pairs under the prefix, in key order
scan_prefix(d, prefix) ==
    LET keys == InKeyOrder({k \in DOMAIN d : IsPrefix(prefix, k)})
    IN [i \in 1..Len(keys) |-> <<keys[i], d[keys[i]]>>]

\* an insert that keeps the value a key already has
insert_if_absent(d, key, value) ==
    [k \in DOMAIN d \cup {key} |-> IF k \in DOMAIN d THEN d[k] ELSE value]

\* Db::insert, when it succeeds
insert(d, key, value) == [k \in DOMAIN d \cup {key} |-> IF k = key THEN value ELSE d[k]]

\* Db::get(..).ok().flatten()
get(d, key) == IF key \in DOMAIN d THEN Some(d[key]) ELSE None

EmptyDb == [k \in {} |-> <<>>]

----------------------------------------------------------------------------
(* Queries *)

\* a scan that ends at the first value that does not decode
RECURSIVE MapWhileThreads(_)
MapWhileThreads(items) ==
    IF items = <<>> \/ de_thread(Head(items)[2]) = None THEN <<>>
    ELSE de_thread(Head(items)[2]) \o MapWhileThreads(Tail(items))

\* the filter_map(.. serde_json::from_slice(&value).ok() ..).collect() of both scans
RECURSIVE FilterMapThreads(_)
FilterMapThreads(items) ==
    IF items = <<>> THEN <<>>
    ELSE de_thread(Head(items)[2]) \o FilterMapThreads(Tail(items))

RECURSIVE FilterMapReplies(_)
FilterMapReplies(items) ==
    IF items = <<>> THEN <<>>
    ELSE de_reply(Head(items)[2]) \o FilterMapReplies(Tail(items))

get_all_threads(d) == FilterMapThreads(scan_prefix(d, THREAD_PREFIX))

\* Db::scan_prefix(prefix).count(): as many as the scan yields
scan_prefix_count(d, prefix) == Cardinality({k \in DOMAIN d : IsPrefix(prefix, k)})

\* a count over the whole tree instead of the thread_ prefix
count_threads_all_keys(d) == scan_prefix_count(d, <<>>)

count_threads(d) == scan_prefix_count(d, THREAD_PREFIX)

get_replies(d, parent_id) == FilterMapReplies(scan_prefix(d, reply_scan_prefix(parent_id)))

\* a reply count taken over the thread keys
count_replies_thread_prefix(d, parent_id) == scan_prefix_count(d, THREAD_PREFIX)

count_replies(d, parent_id) == scan_prefix_count(d, reply_scan_prefix(parent_id))

\* view_thread's read of one thread: a missing key and an undecodable value are both None
get_thread(d, thread_id) ==
    LET value == get(d, thread_key(thread_id))
    IN IF value = None THEN None ELSE de_thread(value[1])

----------------------------------------------------------------------------
(* homepage *)

PAGE_SIZE == 10

\* threads.sort_by(|a, b| b.last_updated.cmp(&a.last_updated)): stable, newest first
RECURSIVE sort_by_last_updated(_)
sort_by_last_updated(threads) ==
    IF threads = <<>> THEN <<>>
    ELSE LET n == Len(threads)
             sorted == sort_by_last_updated(SubSeq(threads, 1, n - 1))
             x == threads[n]
             \* x goes behind the threads that are not older: they are the front of sorted
             at == Cardinality({i \in 1..Len(sorted) : sorted[i].last_updated >= x.last_updated})
         IN SubSeq(sorted, 1, at) \o <<x>> \o SubSeq(sorted, at + 1, Len(sorted))

\* the page count rounded down instead of up
total_pages_floor(total_threads) == total_threads \div PAGE_SIZE

\* (total_threads as f64 / page_size as f64).ceil() as i32
total_pages_of(total_threads) ==
    IF total_threads % PAGE_SIZE = 0 THEN total_threads \div PAGE_SIZE
    ELSE total_threads \div PAGE_SIZE + 1

clamp_page(page_number, total_pages) ==
    IF page_number < 1 THEN 1
    ELSE IF page_number > total_pages /\ total_pages > 0 THEN total_pages
    ELSE page_number

start_index_of(page_number) == (page_number - 1) * PAGE_SIZE

end_index_of(start_index, len) == Min(start_index + PAGE_SIZE, len)

NoResp ==
    [handler |-> "none", status |-> "none", threads |-> <<>>, replies |-> <<>>,
     current_page |-> 0, total_pages |-> 0, start_index |-> 0, end_index |-> 0]

\* get_all_threads and the sort: what homepage pages through
homepage_threads(d) == sort_by_last_updated(get_all_threads(d))

\* The rest of homepage for the query's page (None when the parameter is absent).
\* &threads[start_index..end_index] panics when start_index > end_index.
\* The model's pages stay where (page_number - 1) * page_size fits an i32.
homepage_response(threads, page) ==
    LET page_number == IF page = None THEN 1 ELSE page[1]
        total_threads == Len(threads)
        total_pages == total_pages_of(total_threads)
        current == clamp_page(page_number, total_pages)
        start_index == start_index_of(current)
        end_index == end_index_of(start_index, total_threads)
    IN IF start_index > end_index
       THEN [NoResp EXCEPT !.handler = "homepage", !.status = "panic",
                           !.current_page = current, !.total_pages = total_pages,
                           !.start_index = start_index, !.end_index = end_index]
       ELSE [NoResp EXCEPT !.handler = "homepage", !.status = "Ok",
                           !.threads = SubSeq(threads, start_index + 1, end_index),
                           !.current_page = current, !.total_pages = total_pages,
                           !.start_index = start_index, !.end_index = end_index]

----------------------------------------------------------------------------
(* Requests *)

\* The image fields of a multipart form: the filename of its content
\* disposition and how many chunks of data follow.
Upload(filename, chunks) == [filename |-> filename, chunks |-> chunks]

JpgUpload == Upload(<<"A", ".", "J", "P", "G">>, 2)
JpegUpload == Upload(<<"c", ".", "j", "p", "e", "g">>, 1)
PngUpload == Upload(<<"j", "p", "g", ".", "p", "n", "g">>, 1)
BlankUpload == Upload(<<" ">>, 1)

\* The multipart forms POST /thread is tried with: two valid ones and the ways to be invalid.
ThreadForms ==
    { [title |-> <<" ", "a">>, message |-> <<"m", " ">>, image |-> None],
      [title |-> <<"b">>, message |-> <<"n">>, image |-> Some(JpegUpload)],
      [title |-> <<>>, message |-> <<"m">>, image |-> None],
      [title |-> <<" ">>, message |-> <<"m">>, image |-> None],
      [title |-> <<"a">>, message |-> <<>>, image |-> None],
      [title |-> <<"a">>, message |-> <<" ", " ">>, image |-> None] }

\* The forms the concurrent specification is tried with.
RaceThreadForms ==
    { [title |-> <<" ", "a">>, message |-> <<"m", " ">>, image |-> None],
      [title |-> <<"b">>, message |-> <<"n">>, image |-> None],
      [title |-> <<" ">>, message |-> <<"m">>, image |-> None] }

\* The forms the upload specification is tried with: every way the image field can go.
UploadForms ==
    { [title |-> <<"b">>, message |-> <<"n">>, image |-> Some(JpgUpload)],
      [title |-> <<"b">>, message |-> <<"n">>, image |-> Some(PngUpload)],
      [title |-> <<"b">>, message |-> <<"n">>, image |-> Some(BlankUpload)],
      [title |-> <<"a">>, message |-> <<" ", " ">>, image |-> Some(JpegUpload)] }

\* The one form the pagination specification fills the store with.
PageForms == { [title |-> <<"a">>, message |-> <<"m">>, image |-> None] }

\* The urlencoded forms POST /reply is tried with.  Parent 10 has parent 1's text as a prefix.
ReplyForms ==
    { [parent_id |-> q, message |-> m] : q \in {1, 2, 10}, m \in {<<>>, <<" ">>, <<" ", "x">>} }

RaceReplyForms ==
    { [parent_id |-> q, message |-> m] : q \in {1, 10}, m \in {<<" ">>, <<" ", "x">>, <<"y", " ">>} }

\* GET /thread/{id}
ViewIds == {1, 2, 10}

\* GET /?page=..: absent, or an i32
Pages == {None, Some(-1), Some(0), Some(2), Some(3), Some(4)}

SeqPages == {None, Some(0), Some(2)}

IdleFrame ==
    [handler |-> "none", title |-> <<>>, message |-> <<>>, image_url |-> None,
     image |-> None, file |-> 0, parent_id |-> 0, thread_id |-> 0, reply_id |-> 0, last_updated |-> 0, thread |-> None,
     page |-> None]

Status(handler, status) == [NoResp EXCEPT !.handler = handler, !.status = status]

\* a check that forgets the message
thread_form_rejected_title_only(title, message) == Trim(title) = <<>>

\* title.trim().is_empty() || message.trim().is_empty()
thread_form_rejected(title, message) == Trim(title) = <<>> \/ Trim(message) = <<>>

\* message.is_empty(), of the trimmed message
reply_form_rejected(message) == Trim(message) = <<>>

\* the characters of the file names that have an upper case
ToLower(c) ==
    IF c = "A" THEN "a" ELSE IF c = "J" THEN "j" ELSE IF c = "P" THEN "p"
    ELSE IF c = "G" THEN "g" ELSE c

to_lowercase(s) == [i \in 1..Len(s) |-> ToLower(s[i])]

ends_with(s, suffix) ==
    /\ Len(suffix) <= Len(s)
    /\ SubSeq(s, Len(s) - Len(suffix) + 1, Len(s)) = suffix

\* filename.to_lowercase().ends_with(".jpg") || filename.to_lowercase().ends_with(".jpeg")
is_jpeg(filename) ==
    \/ ends_with(to_lowercase(filename), <<".", "j", "p", "g">>)
    \/ ends_with(to_lowercase(filename), <<".", "j", "p", "e", "g">>)

NoFiles == <<>>

Goto(p, label) == pc' = [pc EXCEPT ![p] = label]

Return(p, response) ==
    /\ pc' = [pc EXCEPT ![p] = "idle"]
    /\ frame' = [frame EXCEPT ![p] = IdleFrame]
    /\ resp' = [resp EXCEPT ![p] = response]

----------------------------------------------------------------------------
(* create_thread *)

\* std::fs::File::create(&filepath) of a path made from a fresh Uuid::new_v4()
new_file_id(fs) == Cardinality(DOMAIN fs) + 1

create_file(fs, id, chunks) ==
    [i \in DOMAIN fs \cup {id} |-> IF i = id THEN [written |-> 0, sent |-> chunks] ELSE fs[i]]

\* f.write_all(&data) of one chunk
write_all(fs, id) == [fs EXCEPT ![id].written = @ + 1]

\* the inner loop over the field's chunks ends after any chunk
upload_ends_early(fs, id) == fs[id].written >= 1

\* while let Some(chunk) = field.next().await: the loop ends when the field has no more chunks
upload_ends(fs, id) == fs[id].written = fs[id].sent

\* format!("/uploads/{}", sanitized_filename)
upload_url(id) == <<"/uploads/", id, ".jpg">>

\* The multipart loop has read the title and message fields and has come to the
\* image field, if the form has one.
CreateThreadRecv(p, form) ==
    /\ pc[p] = "idle"
    /\ frame' = [frame EXCEPT ![p] = [IdleFrame EXCEPT !.handler = "create_thread",
                                          !.title = form.title, !.message = form.message,
                                          !.image = form.image]]
    /\ Goto(p, IF form.image = None THEN "ct_validate" ELSE "ct_image")
    /\ resp' = [resp EXCEPT ![p] = NoResp]
    /\ posts' = posts + 1
    /\ UNCHANGED <<db, clock, threadLog, replyLog, files>>

\* The image field: a blank filename skips it, a filename that is not JPEG ends
\* the request, and File::create(..).await?? ends it with the error when ok is FALSE.
CreateThreadImage(p, ok) ==
    /\ pc[p] = "ct_image"
    /\ LET filename == frame[p].image[1].filename
           id == new_file_id(files)
       IN IF Trim(filename) = <<>>
          THEN Goto(p, "ct_validate") /\ UNCHANGED <<frame, resp, files>>
          ELSE IF ~is_jpeg(filename)
          THEN Return(p, Status("create_thread", "BadRequest")) /\ UNCHANGED files
          ELSE IF ok
          THEN /\ files' = create_file(files, id, frame[p].image[1].chunks)
               /\ frame' = [frame EXCEPT ![p].file = id]
               /\ Goto(p, "ct_write")
               /\ UNCHANGED resp
          ELSE Return(p, Status("create_thread", "InternalServerError")) /\ UNCHANGED files
    /\ UNCHANGED <<db, clock, threadLog, replyLog, posts>>

\* One chunk of the field: write_all(..).await?? ends the request with the error
\* when ok is FALSE; after the last chunk image_url is set.
CreateThreadWrite(p, ok) ==
    /\ pc[p] = "ct_write"
    /\ IF ok
       THEN /\ files' = write_all(files, frame[p].file)
            /\ IF upload_ends(files', frame[p].file)
               THEN /\ frame' = [frame EXCEPT ![p].image_url = Some(upload_url(frame[p].file))]
                    /\ Goto(p, "ct_validate")
               ELSE UNCHANGED <<pc, frame>>
            /\ UNCHANGED resp
       ELSE Return(p, Status("create_thread", "InternalServerError")) /\ UNCHANGED files
    /\ UNCHANGED <<db, clock, threadLog, replyLog, posts>>

CreateThreadValidate(p) ==
    /\ pc[p] = "ct_validate"
    /\ IF thread_form_rejected(frame[p].title, frame[p].message)
       THEN Return(p, Status("create_thread", "BadRequest"))
       ELSE Goto(p, "ct_count") /\ UNCHANGED <<frame, resp>>
    /\ UNCHANGED <<db, clock, threadLog, replyLog, posts, files>>

\* let thread_id = count_threads(&db) + 1
CreateThreadCount(p) ==
    /\ pc[p] = "ct_count"
    /\ frame' = [frame EXCEPT ![p].thread_id = count_threads(db) + 1]
    /\ Goto(p, "ct_now")
    /\ UNCHANGED <<db, clock, resp, threadLog, replyLog, posts, files>>

\* last_updated: Utc::now().timestamp()
CreateThreadNow(p) ==
    /\ pc[p] = "ct_now"
    /\ frame' = [frame EXCEPT ![p].last_updated = clock]
    /\ Goto(p, "ct_insert")
    /\ UNCHANGED <<db, clock, resp, threadLog, replyLog, posts, files>>

\* a thread built from the untrimmed fields
new_thread_untrimmed(f) == Thread(f.thread_id, f.title, f.message, f.last_updated, f.image_url)

\* the Thread value create_thread builds from its locals
new_thread(f) == Thread(f.thread_id, Trim(f.title), Trim(f.message), f.last_updated, f.image_url)

\* a handler that does not look at what the insert returned
is_ok_ignored(ok) == TRUE

\* db.insert(..).is_ok(), where ok is whether sled did the write
is_ok(ok) == ok

\* db.insert(key, value): the response is SeeOther or 500 "Failed to create thread"
CreateThreadInsert(p, ok) ==
    /\ pc[p] = "ct_insert"
    /\ db' = IF ok THEN insert(db, thread_key(frame[p].thread_id), ser_thread(new_thread(frame[p])))
             ELSE db
    /\ IF is_ok(ok)
       THEN /\ threadLog' = Append(threadLog, frame[p].thread_id)
            /\ Return(p, Status("create_thread", "SeeOther"))
       ELSE /\ Return(p, Status("create_thread", "InternalServerError"))
            /\ UNCHANGED threadLog
    /\ UNCHANGED <<clock, replyLog, posts, files>>

----------------------------------------------------------------------------
(* create_reply *)

CreateReplyRecv(p, form) ==
    /\ pc[p] = "idle"
    /\ frame' = [frame EXCEPT ![p] = [IdleFrame EXCEPT !.handler = "create_reply",
                                          !.parent_id = form.parent_id,
                                          !.message = form.message]]
    /\ Goto(p, "cr_validate")
    /\ resp' = [resp EXCEPT ![p] = NoResp]
    /\ posts' = posts + 1
    /\ UNCHANGED <<db, clock, threadLog, replyLog, files>>

CreateReplyValidate(p) ==
    /\ pc[p] = "cr_validate"
    /\ IF reply_form_rejected(frame[p].message)
       THEN Return(p, Status("create_reply", "BadRequest"))
       ELSE Goto(p, "cr_count") /\ UNCHANGED <<frame, resp>>
    /\ UNCHANGED <<db, clock, threadLog, replyLog, posts, files>>

\* let reply_id = count_replies(&db, parent_id) + 1
CreateReplyCount(p) ==
    /\ pc[p] = "cr_count"
    /\ frame' = [frame EXCEPT ![p].reply_id = count_replies(db, frame[p].parent_id) + 1]
    /\ Goto(p, "cr_insert")
    /\ UNCHANGED <<db, clock, resp, threadLog, replyLog, posts, files>>

\* a Reply that takes its parent's id for its own
new_reply_parent_id(f) == Reply(f.parent_id, Trim(f.message))

\* the Reply value create_reply builds from its locals
new_reply(f) == Reply(f.reply_id, Trim(f.message))

\* db.insert(key, value) of the reply.  The response is decided here: nothing in
\* the touch that follows changes it.
CreateReplyInsert(p, ok) ==
    /\ pc[p] = "cr_insert"
    /\ db' = IF ok THEN insert(db, reply_key(frame[p].parent_id, frame[p].reply_id),
                               ser_reply(new_reply(frame[p])))
             ELSE db
    /\ IF is_ok(ok)
       THEN Goto(p, "cr_get") /\ UNCHANGED <<frame, resp>>
       ELSE Return(p, Status("create_reply", "InternalServerError"))
    /\ UNCHANGED <<clock, threadLog, replyLog, posts, files>>

CreateReplyDone(p) ==
    /\ replyLog' = Append(replyLog, <<frame[p].parent_id, frame[p].reply_id>>)
    /\ Return(p, Status("create_reply", "SeeOther"))

\* db.get(&thread_key).ok().flatten(), then from_slice::<Thread>: a failed read,
\* a missing key and an undecodable value all skip the touch.
CreateReplyGet(p, ok) ==
    /\ pc[p] = "cr_get"
    /\ LET bytes == IF ok THEN get(db, thread_key(frame[p].parent_id)) ELSE None
           thread == IF bytes = None THEN None ELSE de_thread(bytes[1])
       IN IF thread = None
          THEN CreateReplyDone(p)
          ELSE /\ frame' = [frame EXCEPT ![p].thread = thread]
               /\ Goto(p, "cr_now")
               /\ UNCHANGED <<resp, replyLog>>
    /\ UNCHANGED <<db, clock, threadLog, posts, files>>

\* thread.last_updated = Utc::now().timestamp()
CreateReplyNow(p) ==
    /\ pc[p] = "cr_now"
    /\ frame' = [frame EXCEPT ![p].thread = Some([frame[p].thread[1] EXCEPT !.last_updated = clock])]
    /\ Goto(p, "cr_touch")
    /\ UNCHANGED <<db, clock, resp, threadLog, replyLog, posts, files>>

\* db.insert(thread_key, updated).ok(): the result is dropped
CreateReplyTouch(p, ok) ==
    /\ pc[p] = "cr_touch"
    /\ db' = IF ok THEN insert(db, thread_key(frame[p].parent_id), ser_thread(frame[p].thread[1]))
             ELSE db
    /\ CreateReplyDone(p)
    /\ UNCHANGED <<clock, threadLog, posts, files>>

----------------------------------------------------------------------------
(* view_thread, homepage, the clock *)

ViewThreadRecv(p, thread_id) ==
    /\ pc[p] = "idle"
    /\ frame' = [frame EXCEPT ![p] = [IdleFrame EXCEPT !.handler = "view_thread",
                                          !.thread_id = thread_id]]
    /\ Goto(p, "vt_get")
    /\ resp' = [resp EXCEPT ![p] = NoResp]
    /\ UNCHANGED <<db, clock, threadLog, replyLog, posts, files>>

ViewThreadGet(p) ==
    /\ pc[p] = "vt_get"
    /\ LET thread == get_thread(db, frame[p].thread_id)
       IN IF thread = None
          THEN Return(p, Status("view_thread", "NotFound"))
          ELSE /\ frame' = [frame EXCEPT ![p].thread = thread]
               /\ Goto(p, "vt_replies")
               /\ UNCHANGED resp
    /\ UNCHANGED <<db, clock, threadLog, replyLog, posts, files>>

ViewThreadReplies(p) ==
    /\ pc[p] = "vt_replies"
    /\ Return(p, [Status("view_thread", "Ok") EXCEPT
                     !.threads = frame[p].thread,
                     !.replies = get_replies(db, frame[p].thread_id)])
    /\ UNCHANGED <<db, clock, threadLog, replyLog, posts, files>>

HomepageRecv(p, page) ==
    /\ pc[p] = "idle"
    /\ frame' = [frame EXCEPT ![p] = [IdleFrame EXCEPT !.handler = "homepage", !.page = page]]
    /\ Goto(p, "hp_scan")
    /\ resp' = [resp EXCEPT ![p] = NoResp]
    /\ UNCHANGED <<db, clock, threadLog, replyLog, posts, files>>

\* get_all_threads is the one store operation of homepage; the rest is local
Homepage(p) ==
    /\ pc[p] = "hp_scan"
    /\ Return(p, homepage_response(homepage_threads(db), frame[p].page))
    /\ UNCHANGED <<db, clock, threadLog, replyLog, posts, files>>

Tick(max) ==
    /\ clock < max
    /\ clock' = clock + 1
    /\ UNCHANGED <<db, pc, frame, resp, threadLog, replyLog, posts, files>>

----------------------------------------------------------------------------
(* Specifications *)

reply_keys(d) == {k \in DOMAIN d : IsPrefix(REPLY_PREFIX, k)}

Init ==
    /\ db = EmptyDb
    /\ clock = 0
    /\ pc = [p \in Procs |-> "idle"]
    /\ frame = [p \in Procs |-> IdleFrame]
    /\ resp = [p \in Procs |-> NoResp]
    /\ threadLog = <<>>
    /\ replyLog = <<>>
    /\ posts = 0
    /\ files = NoFiles

\* the steps of the two POST handlers
PostSteps(p) ==
    \/ CreateThreadValidate(p)
    \/ CreateThreadCount(p)
    \/ CreateThreadNow(p)
    \/ \E ok \in BOOLEAN : CreateThreadInsert(p, ok)
    \/ CreateReplyValidate(p)
    \/ CreateReplyCount(p)
    \/ \E ok \in BOOLEAN : CreateReplyInsert(p, ok)
    \/ \E ok \in BOOLEAN : CreateReplyGet(p, ok)
    \/ CreateReplyNow(p)
    \/ \E ok \in BOOLEAN : CreateReplyTouch(p, ok)

\* the steps of create_thread's image field
UploadSteps(p) ==
    \/ \E ok \in BOOLEAN : CreateThreadImage(p, ok)
    \/ \E ok \in BOOLEAN : CreateThreadWrite(p, ok)

\* the steps of the two GET handlers
GetSteps(p) ==
    \/ ViewThreadGet(p)
    \/ ViewThreadReplies(p)
    \/ Homepage(p)

\* Two workers serve POST requests concurrently; every store operation and clock
\* read is a step.  The GET handlers write nothing and are left to SpecSeq, the
\* uploads to SpecSeq and SpecUpload.
Next ==
    \/ Tick(MaxClock)
    \/ \E p \in Procs :
        \/ PostSteps(p)
        \/ posts < MaxPosts /\ \E form \in RaceThreadForms : CreateThreadRecv(p, form)
        \/ posts < MaxPosts /\ \E form \in RaceReplyForms : CreateReplyRecv(p, form)

Spec == Init /\ [][Next]_vars

\* One worker: the requests run one after the other.
NextSeq ==
    \/ Tick(MaxSeqClock)
    \/ PostSteps(1)
    \/ UploadSteps(1)
    \/ GetSteps(1)
    \/ posts < MaxSeqPosts /\ \E form \in ThreadForms : CreateThreadRecv(1, form)
    \/ posts < MaxSeqPosts /\ \E form \in ReplyForms : CreateReplyRecv(1, form)
    \/ \E id \in ViewIds : ViewThreadRecv(1, id)
    \/ \E page \in SeqPages : HomepageRecv(1, page)

SpecSeq == Init /\ [][NextSeq]_vars

\* One worker filling the store with threads and paging through them.
NextPage ==
    \/ Tick(MaxPageClock)
    \/ CreateThreadValidate(1)
    \/ CreateThreadCount(1)
    \/ CreateThreadNow(1)
    \/ CreateThreadInsert(1, TRUE)
    \/ posts < MaxPagePosts /\ \E form \in PageForms : CreateThreadRecv(1, form)
    \/ \E page \in Pages : HomepageRecv(1, page)
    \/ Homepage(1)

SpecPage == Init /\ [][NextPage]_vars

\* The server process stops while requests are in flight and is started again:
\* the handlers' locals are gone and no response is sent; the store and the
\* upload directory keep what was written.
Crash ==
    /\ \E p \in Procs : pc[p] # "idle"
    /\ pc' = [p \in Procs |-> "idle"]
    /\ frame' = [p \in Procs |-> IdleFrame]
    /\ resp' = [p \in Procs |-> NoResp]
    /\ UNCHANGED <<db, clock, threadLog, replyLog, posts, files>>

CrashReplyForms == {form \in RaceReplyForms : form.parent_id = 1}

\* The two workers of Spec, with crashes.
NextCrash ==
    \/ Tick(MaxCrashClock)
    \/ Crash
    \/ \E p \in Procs :
        \/ PostSteps(p)
        \/ posts < MaxCrashPosts /\ \E form \in RaceThreadForms : CreateThreadRecv(p, form)
        \/ posts < MaxCrashPosts /\ \E form \in CrashReplyForms : CreateReplyRecv(p, form)

SpecCrash == Init /\ [][NextCrash]_vars

\* Values that are not the JSON of a Thread or of a Reply: an object without
\* its title, an object without its message, and the empty object.
MalformedThreads == { << <<"id", 1>>, <<"message", <<"m">> >>, <<"last_updated", 0>> >>, <<>> }

MalformedReplies == { << <<"id", 1>> >>, <<>> }

RECURSIVE insert_all(_, _)
insert_all(d, items) ==
    IF items = <<>> THEN d
    ELSE insert_all(insert(d, Head(items)[1], Head(items)[2]), Tail(items))

\* What sled::open can find on disk: the records of earlier runs, some of them
\* no longer decodable.
StoredDbs ==
    { insert_all(EmptyDb,
         << <<thread_key(1), << <<"id", 1>>, <<"message", <<"m">> >>, <<"last_updated", 0>> >> >>,
            <<thread_key(2), ser_thread(Thread(2, <<"t">>, <<"m">>, 0, None))>>,
            <<reply_key(1, 1), ser_reply(Reply(1, <<"x">>))>>,
            <<reply_key(2, 1), << <<"id", 1>> >> >>,
            <<reply_key(2, 2), ser_reply(Reply(2, <<"y">>))>> >>),
      insert_all(EmptyDb,
         << <<thread_key(1), ser_thread(Thread(1, <<"t">>, <<"m">>, 0, None))>>,
            <<thread_key(2), <<>> >>,
            <<reply_key(1, 1), <<>> >> >>) }

InitStored ==
    /\ db \in StoredDbs
    /\ clock = 0
    /\ pc = [p \in Procs |-> "idle"]
    /\ frame = [p \in Procs |-> IdleFrame]
    /\ resp = [p \in Procs |-> NoResp]
    /\ threadLog = <<>>
    /\ replyLog = <<>>
    /\ posts = 0
    /\ files = NoFiles

StoredReplyForms == { [parent_id |-> q, message |-> <<" ", "x">>] : q \in {1, 2, 3} }

StoredViewIds == {1, 2, 3}

\* One worker over a store that already holds records.
NextStored ==
    \/ Tick(MaxStoredClock)
    \/ PostSteps(1)
    \/ GetSteps(1)
    \/ posts < MaxStoredPosts /\ \E form \in PageForms : CreateThreadRecv(1, form)
    \/ posts < MaxStoredPosts /\ \E form \in StoredReplyForms : CreateReplyRecv(1, form)
    \/ \E id \in StoredViewIds : ViewThreadRecv(1, id)
    \/ HomepageRecv(1, None)

SpecStored == InitStored /\ [][NextStored]_vars

\* Two workers creating threads whose forms carry an image field.
NextUpload ==
    \E p \in Procs :
        \/ UploadSteps(p)
        \/ CreateThreadValidate(p)
        \/ CreateThreadCount(p)
        \/ CreateThreadNow(p)
        \/ \E ok \in BOOLEAN : CreateThreadInsert(p, ok)
        \/ posts < MaxUploadPosts /\ \E form \in UploadForms : CreateThreadRecv(p, form)

SpecUpload == Init /\ [][NextUpload]_vars

----------------------------------------------------------------------------
(* Properties *)

thread_keys(d) == {k \in DOMAIN d : IsPrefix(THREAD_PREFIX, k)}

\* a listing's elements, as a set
Range(seq) == {seq[i] : i \in 1..Len(seq)}

\* C1: from an empty store, the k-th thread creation answered with success was
\* given id k and is stored under thread_k: after N of them the thread keys are
\* thread_1 .. thread_N and the stored ids are 1..N, whatever was rejected or
\* failed in between (SpecSeq).
C1_SequentialThreadIds ==
    LET N == Len(threadLog)
    IN /\ threadLog = [k \in 1..N |-> k]
       /\ thread_keys(db) = {thread_key(k) : k \in 1..N}
       /\ \A k \in 1..N : get_thread(db, k) # None /\ get_thread(db, k)[1].id = k
       /\ Len(get_all_threads(db)) = N

\* three threads were created and one more form was rejected, failed or was a reply
C1_Witness == Len(threadLog) = 3 /\ posts = 4 /\ pc[1] = "idle"

\* C2: the k-th reply accepted under a parent gets id k, whatever exists under
\* other parents (SpecSeq).
C2_PerParentNumbering ==
    \A i \in 1..Len(replyLog) :
        replyLog[i][2] = Cardinality({j \in 1..(i - 1) : replyLog[j][1] = replyLog[i][1]}) + 1

\* the keys get_replies(parent_id) reads its replies from
listed_reply_keys(d, parent_id) ==
    LET items == scan_prefix(d, reply_scan_prefix(parent_id))
    IN {items[i][1] : i \in 1..Len(items)}

\* C3: get_replies(p) lists exactly the replies created under p, so that every
\* stored reply is listed for exactly one parent (SpecSeq).
C3_ListedUnderOwnParent ==
    /\ \A p \in ViewIds :
           listed_reply_keys(db, p) =
               {reply_key(p, replyLog[i][2]) : i \in {j \in 1..Len(replyLog) : replyLog[j][1] = p}}
                   \cup {k \in reply_keys(db) : pc[1] \in {"cr_get", "cr_now", "cr_touch"}
                                                /\ frame[1].parent_id = p
                                                /\ k = reply_key(p, frame[1].reply_id)}
    /\ \A k \in reply_keys(db) :
           Cardinality({p \in ViewIds : k \in listed_reply_keys(db, p)}) = 1

\* the threads stored under thread keys with a value that decodes
stored_threads(d) == {k \in thread_keys(d) : de_thread(d[k]) # None}

\* C4: no step lowers the last_updated stored under a thread key (Spec).
C4_LastUpdatedMonotonic ==
    [][\A k \in stored_threads(db) :
           /\ k \in stored_threads(db')
           /\ de_thread(db'[k])[1].last_updated >= de_thread(db[k])[1].last_updated]_vars

\* C5: every homepage request is answered with a slice whose bounds satisfy
\* 0 <= start <= end <= count, for every store and every page (SpecPage).
C5_PaginationNeverFails ==
    resp[1].handler = "homepage" =>
        /\ resp[1].status = "Ok"
        /\ 0 <= resp[1].start_index
        /\ resp[1].start_index <= resp[1].end_index
        /\ resp[1].end_index <= Len(get_all_threads(db))

\* newest first
Descending(threads) ==
    \A i \in 1..Len(threads), j \in 1..Len(threads) :
        i < j => threads[i].last_updated >= threads[j].last_updated

\* C6: with n >= 1 threads and requested page r, homepage answers with
\* total_pages = ceil(n / 10), current_page = r clamped into 1..total_pages, and
\* the threads at positions [(current_page - 1) * 10, min(current_page * 10, n))
\* of the stored threads ordered newest first; with n = 25, page 1 has 10 items,
\* page 3 has 5, page 4 is page 3 and a page below 1 is page 1 (SpecPage).
C6_Pagination ==
    [][(pc[1] = "hp_scan" /\ pc'[1] = "idle" /\ count_threads(db) >= 1) =>
        LET n == count_threads(db)
            r == IF frame[1].page = None THEN 1 ELSE frame[1].page[1]
            listing == homepage_threads(db)
            tp == resp'[1].total_pages
            cp == resp'[1].current_page
            first == (cp - 1) * 10
            last == IF cp * 10 < n THEN cp * 10 ELSE n
            page == resp'[1].threads
        IN /\ resp'[1].status = "Ok"
           /\ Len(listing) = n
           /\ Range(listing) = {de_thread(db[k])[1] : k \in thread_keys(db)}
           /\ Descending(listing)
           /\ tp * 10 >= n /\ (tp - 1) * 10 < n
           /\ cp = (IF r < 1 THEN 1 ELSE IF r > tp THEN tp ELSE r)
           /\ Len(page) = last - first
           /\ \A i \in 1..Len(page) : page[i] = listing[first + i]
           /\ n = 25 =>
                /\ r \in {-1, 0, 1} => page = SubSeq(listing, 1, 10)
                /\ r \in {3, 4} => page = SubSeq(listing, 21, 25)
      ]_vars

\* page 3 of 25 threads created at two different times was served
C6_Witness ==
    /\ resp[1].handler = "homepage" /\ resp[1].status = "Ok"
    /\ count_threads(db) = 25
    /\ resp[1].current_page = 3 /\ resp[1].total_pages = 3
    /\ Len(resp[1].threads) = 5
    /\ resp[1].threads[1].last_updated # homepage_threads(db)[1].last_updated

\* empty, or whitespace only
Blank(s) == \A i \in 1..Len(s) : s[i] = " "

\* C7: a thread form with a blank title or message, and a reply form with a blank
\* message, is answered BadRequest in the validation step, which ends the request
\* and changes neither the store nor the ids given out (SpecSeq).
C7_RejectedLeavesStore ==
    [][\A p \in Procs :
          (/\ pc'[p] # pc[p]
           /\ \/ pc[p] = "ct_validate" /\ (Blank(frame[p].title) \/ Blank(frame[p].message))
              \/ pc[p] = "cr_validate" /\ Blank(frame[p].message))
          => /\ resp'[p].status = "BadRequest"
             /\ pc'[p] = "idle"
             /\ db' = db
             /\ threadLog' = threadLog /\ replyLog' = replyLog]_vars

\* a form was rejected while the store held a thread and a reply
C7_Witness ==
    /\ resp[1].status = "BadRequest"
    /\ thread_keys(db) # {} /\ reply_keys(db) # {}

\* C8: right after a thread creation that allocated id k succeeded, reading
\* thread k back gives id k > 0, the trimmed title and message, and the
\* image_url and last_updated that were written (SpecSeq).
C8_CreateThenGet ==
    [][(pc[1] = "ct_insert" /\ pc'[1] = "idle" /\ resp'[1].status = "SeeOther") =>
        LET k == frame[1].thread_id
            read == get_thread(db', k)
        IN /\ k > 0
           /\ read # None
           /\ read[1].id = k
           /\ read[1].title = Trim(frame[1].title) /\ ~Blank(read[1].title)
           /\ read[1].message = Trim(frame[1].message) /\ ~Blank(read[1].message)
           /\ read[1].image_url = frame[1].image_url
           /\ read[1].last_updated = frame[1].last_updated
      ]_vars

\* both valid forms were created and read back, one trimmed and one with an image
C8_Witness ==
    /\ resp[1].handler = "view_thread" /\ resp[1].status = "Ok"
    /\ resp[1].threads[1].id = 2
    /\ resp[1].threads[1].title = <<"a">>
    /\ get_thread(db, 1) # None /\ get_thread(db, 1)[1].image_url = Some(upload_url(1))

\* C9: a thread record, once stored, stays under its key with the same id,
\* title, message and image_url (Spec).
C9_ThreadFieldsFrozen ==
    [][\A k \in stored_threads(db) :
           /\ k \in stored_threads(db')
           /\ LET old == de_thread(db[k])[1]
                  new == de_thread(db'[k])[1]
              IN /\ new.id = old.id
                 /\ new.title = old.title
                 /\ new.message = old.message
                 /\ new.image_url = old.image_url]_vars

\* the workers whose current create_reply has already written its reply
ReplyWritten(p) == pc[p] \in {"cr_get", "cr_now", "cr_touch"}

\* C10: when a create_reply inserts under the parent and id of a reply that
\* another worker's request in flight has already written, or a create_thread
\* inserts under an id already answered with success, the insert overwrites:
\* the key was there, no key is added, the later record is the one left, and
\* every request that wrote its record is answered with SeeOther (Spec).
C10_DuplicateIdOverwrites ==
    [][\A q \in Procs :
        /\ (/\ pc[q] = "cr_insert" /\ pc'[q] = "cr_get"
            /\ \E p \in Procs \ {q} :
                   /\ ReplyWritten(p)
                   /\ frame[p].parent_id = frame[q].parent_id
                   /\ frame[p].reply_id = frame[q].reply_id)
           => LET key == reply_key(frame[q].parent_id, frame[q].reply_id)
              IN /\ key \in DOMAIN db
                 /\ DOMAIN db' = DOMAIN db
                 /\ de_reply(db'[key]) = Some(Reply(frame[q].reply_id, Trim(frame[q].message)))
        /\ (/\ pc[q] = "ct_insert" /\ pc'[q] = "idle" /\ resp'[q].status = "SeeOther"
            /\ \E i \in 1..Len(threadLog) : threadLog[i] = frame[q].thread_id)
           => LET key == thread_key(frame[q].thread_id)
              IN /\ key \in DOMAIN db
                 /\ DOMAIN db' = DOMAIN db
                 /\ de_thread(db'[key])[1].title = Trim(frame[q].title)
        /\ (ReplyWritten(q) /\ pc'[q] = "idle")
           => /\ resp'[q].status = "SeeOther"
              /\ replyLog' = Append(replyLog, <<frame[q].parent_id, frame[q].reply_id>>)
      ]_vars

\* two replies under parent 1 were both answered with success for id 1, and one
\* record is left, the second writer's
C10_Witness ==
    /\ replyLog = << <<1, 1>>, <<1, 1>> >>
    /\ resp[1].status = "SeeOther" /\ resp[2].status = "SeeOther"
    /\ reply_keys(db) = {reply_key(1, 1)}
    /\ pc[1] = "idle" /\ pc[2] = "idle"

\* every chunk the client sent for the file is in it
FileComplete(id) == id \in DOMAIN files /\ files[id].written = files[id].sent

\* C12: in every state, a stored thread with an image_url names a file that
\* holds every chunk of its upload, and it did so when the record was inserted;
\* a request whose file creation or chunk write fails, or whose filename is not
\* JPEG, ends there with an error answer and inserts no thread record (SpecUpload).
C12_FileBeforeRecord ==
    /\ [](\A k \in stored_threads(db) :
             LET url == de_thread(db[k])[1].image_url
             IN url # None =>
                  \E id \in DOMAIN files : url = Some(upload_url(id)) /\ FileComplete(id))
    /\ [][\A p \in Procs :
            /\ (pc[p] = "ct_insert" /\ db' # db /\ frame[p].image_url # None)
               => \E id \in DOMAIN files :
                      /\ frame[p].image_url = Some(upload_url(id))
                      /\ FileComplete(id)
            /\ (pc[p] \in {"ct_image", "ct_write"} /\ pc'[p] = "idle")
               => /\ db' = db /\ threadLog' = threadLog
                  /\ resp'[p].status \in {"BadRequest", "InternalServerError"}
            /\ (pc[p] = "ct_image" /\ frame[p].image = Some(PngUpload) /\ pc'[p] # pc[p])
               => pc'[p] = "idle" /\ resp'[p].status = "BadRequest"
            /\ (pc[p] = "ct_write" /\ files' = files /\ pc'[p] # pc[p])
               => pc'[p] = "idle" /\ resp'[p].status = "InternalServerError"
      ]_vars

\* a thread is stored with the image of a two-chunk upload, next to the file a
\* failed upload left half written
C12_Witness ==
    /\ \E k \in stored_threads(db) : \E id \in DOMAIN files :
           /\ de_thread(db[k])[1].image_url = Some(upload_url(id))
           /\ files[id].sent = 2
    /\ \E id \in DOMAIN files : files[id].written < files[id].sent
    /\ \E p \in Procs : resp[p].status = "InternalServerError" /\ pc[p] = "idle"

\* the record under the thread key is not there, or is not the JSON of a Thread
MissingOrMalformed(d, thread_id) ==
    thread_key(thread_id) \notin DOMAIN d \/ d[thread_key(thread_id)] \in MalformedThreads

\* C11: a valid reply whose parent's thread record is missing or malformed is
\* stored under reply_<parent>_<id> and answered with SeeOther; its insert adds
\* that one key and the read that follows ends the request without writing:
\* no thread key appears and no thread record changes (SpecStored).
C11_ReplyWithoutParent ==
    [][(MissingOrMalformed(db, frame[1].parent_id) /\ pc'[1] # pc[1]) =>
        LET key == reply_key(frame[1].parent_id, frame[1].reply_id)
        IN /\ pc[1] = "cr_insert" /\ pc'[1] = "cr_get"
              => /\ DOMAIN db' = DOMAIN db \cup {key}
                 /\ db'[key] = ser_reply(Reply(frame[1].reply_id, Trim(frame[1].message)))
                 /\ \A k \in DOMAIN db \ {key} : db'[k] = db[k]
                 /\ key \notin thread_keys(db')
           /\ pc[1] = "cr_get"
              => /\ pc'[1] = "idle"
                 /\ resp'[1] = Status("create_reply", "SeeOther")
                 /\ db' = db
                 /\ key \in DOMAIN db
                 /\ replyLog' = Append(replyLog, <<frame[1].parent_id, frame[1].reply_id>>)
      ]_vars

\* a reply to the malformed thread and a reply to a thread that is not there
\* were both answered with success and are both stored, after the clock moved
C11_Witness ==
    /\ pc[1] = "idle" /\ resp[1] = Status("create_reply", "SeeOther")
    /\ Len(replyLog) = 2
    /\ \E i, j \in 1..2 :
           /\ thread_key(replyLog[i][1]) \notin DOMAIN db
           /\ thread_key(replyLog[j][1]) \in DOMAIN db
           /\ db[thread_key(replyLog[j][1])] \in MalformedThreads
           /\ reply_key(replyLog[i][1], replyLog[i][2]) \in DOMAIN db
           /\ reply_key(replyLog[j][1], replyLog[j][2]) \in DOMAIN db
    /\ clock = 1

\* the thread keys whose value is the JSON of a Thread
well_formed_thread_keys(d) == {k \in thread_keys(d) : d[k] \notin MalformedThreads}

\* C16: over a store with malformed records, view_thread answers NotFound for
\* a malformed thread_k as for a missing one and reads a well-formed one as
\* stored; homepage lists the well-formed threads, all of them and nothing
\* else; the reply listing of a thread lists the well-formed replies among the
\* keys it scans, which include all of the thread's own; both listings answer
\* Ok (SpecStored).
C16_MalformedSkipped ==
    [][LET id == frame[1].thread_id
           key == thread_key(id)
       IN /\ (pc[1] = "vt_get" /\ pc'[1] # pc[1] /\ key \in DOMAIN db)
             => IF db[key] \in MalformedThreads
                THEN pc'[1] = "idle" /\ resp'[1] = Status("view_thread", "NotFound")
                ELSE pc'[1] = "vt_replies" /\ ser_thread(frame'[1].thread[1]) = db[key]
          /\ (pc[1] = "hp_scan" /\ pc'[1] # pc[1])
             => /\ pc'[1] = "idle" /\ resp'[1].status = "Ok"
                /\ Len(resp'[1].threads) = Cardinality(well_formed_thread_keys(db))
                /\ {ser_thread(t) : t \in Range(resp'[1].threads)}
                       = {db[k] : k \in well_formed_thread_keys(db)}
          /\ (pc[1] = "vt_replies" /\ pc'[1] # pc[1])
             => LET scanned == listed_reply_keys(db, id)
                    good == {k \in scanned : db[k] \notin MalformedReplies}
                IN /\ pc'[1] = "idle" /\ resp'[1].status = "Ok"
                   /\ \A r \in 1..(posts + 2) :
                          reply_key(id, r) \in DOMAIN db => reply_key(id, r) \in scanned
                   /\ Len(resp'[1].replies) = Cardinality(good)
                   /\ {ser_reply(r) : r \in Range(resp'[1].replies)} = {db[k] : k \in good}
      ]_vars

\* thread 2 was shown with the two well-formed replies of the three stored
\* under it, while thread_1 holds a malformed record and a thread was created
C16_Witness ==
    /\ resp[1].handler = "view_thread" /\ resp[1].status = "Ok"
    /\ resp[1].threads[1].id = 2
    /\ Len(resp[1].replies) = 2
    /\ Cardinality(listed_reply_keys(db, 2)) = 3
    /\ thread_key(1) \in DOMAIN db /\ db[thread_key(1)] \in MalformedThreads
    /\ threadLog = <<3>>

\* C13: with one worker, a reply answered with success after its touch step
\* leaves the parent's stored last_updated at the time the request read from
\* the clock, which is not below the value before, and when that time is above
\* every other thread's last_updated the parent is first on page 1 (SpecSeq).
C13_ReplyTouchesThread ==
    [][(pc[1] = "cr_touch" /\ pc'[1] = "idle" /\ resp'[1].status = "SeeOther") =>
        LET T == frame[1].parent_id
            t == frame[1].thread[1].last_updated
            read == get_thread(db', T)
            others == stored_threads(db') \ {thread_key(T)}
        IN /\ read # None
           /\ read[1].last_updated = t
           /\ t >= get_thread(db, T)[1].last_updated
           /\ (\A k \in others : de_thread(db'[k])[1].last_updated < t)
              => homepage_response(homepage_threads(db'), None).threads[1].id = T
      ]_vars

\* C14: when the insert of a new thread or reply record does not put the record
\* in the store, the request ends at that step with InternalServerError and the
\* store as it was, so nothing is retried and no parent is touched; an answer
\* of InternalServerError never comes with a write (Spec).
C14_InsertFailureReported ==
    [][\A p \in Procs :
        /\ (pc[p] = "ct_insert" /\ pc'[p] # pc[p])
           => LET key == thread_key(frame[p].thread_id)
              IN /\ pc'[p] = "idle"
                 /\ (key \notin DOMAIN db' \/ db'[key] # ser_thread(new_thread(frame[p])))
                    => resp'[p] = Status("create_thread", "InternalServerError")
                 /\ resp'[p].status # "SeeOther" => db' = db /\ threadLog' = threadLog
        /\ (pc[p] = "cr_insert" /\ pc'[p] # pc[p])
           => LET key == reply_key(frame[p].parent_id, frame[p].reply_id)
              IN /\ (key \notin DOMAIN db' \/ db'[key] # ser_reply(new_reply(frame[p])))
                    => /\ pc'[p] = "idle"
                       /\ resp'[p] = Status("create_reply", "InternalServerError")
                 /\ pc'[p] = "idle"
                    => /\ resp'[p] = Status("create_reply", "InternalServerError")
                       /\ db' = db /\ replyLog' = replyLog
      ]_vars

\* a reply and a thread were both answered with a failure; the reply's parent
\* is stored and still has the time of its creation, which the clock has left behind
C14_Witness ==
    /\ pc[1] = "idle" /\ resp[1] = Status("create_reply", "InternalServerError")
    /\ pc[2] = "idle" /\ resp[2] = Status("create_thread", "InternalServerError")
    /\ get_thread(db, 1) # None /\ get_thread(db, 1)[1].last_updated = 0
    /\ clock = 1
    /\ reply_keys(db) = {} /\ Cardinality(thread_keys(db)) = 1

\* C15: a reply request whose touch write did not put the updated thread in
\* the store is not answered with SeeOther (SpecSeq).
C15_TouchFailureSurfaced ==
    [][(/\ pc[1] = "cr_touch" /\ pc'[1] # pc[1]
        /\ db'[thread_key(frame[1].parent_id)] # ser_thread(frame[1].thread[1]))
       => resp'[1].status # "SeeOther"]_vars

\* C17: the reply is written before the parent is touched: while a request is
\* between its reply insert and its answer its reply record is in the store,
\* and a step of a reply request that changes a thread record is its touch
\* step, taken with a reply record of its id stored under its key: its own, or
\* the one a racing request with the same id has put over it (SpecCrash).
C17_ReplyBeforeTouch ==
    /\ [](\A p \in Procs :
             ReplyWritten(p) =>
                LET key == reply_key(frame[p].parent_id, frame[p].reply_id)
                IN key \in DOMAIN db /\ de_reply(db[key]) # None)
    /\ [][\A p \in Procs :
            (/\ frame[p].handler = "create_reply" /\ pc'[p] # pc[p]
             /\ \E k \in thread_keys(db') : k \notin DOMAIN db \/ db'[k] # db[k])
            => LET key == reply_key(frame[p].parent_id, frame[p].reply_id)
               IN /\ pc[p] = "cr_touch"
                  /\ key \in DOMAIN db
                  /\ de_reply(db[key]) # None
                  /\ de_reply(db[key])[1].id = frame[p].reply_id
      ]_vars

\* after a crash between the two writes: no request is in flight and no reply
\* was ever answered, yet a reply to thread 1 is stored, and thread 1 still has
\* the time of its creation although the clock has moved
C17_Witness ==
    /\ pc[1] = "idle" /\ pc[2] = "idle"
    /\ replyLog = <<>>
    /\ reply_key(1, 1) \in DOMAIN db
    /\ get_thread(db, 1) # None /\ get_thread(db, 1)[1].last_updated = 0
    /\ clock = 1

\* C18: from an empty store, under every interleaving of the two workers, the
\* thread keys are thread_1 .. thread_m for the number m of thread keys (Spec).
C18_ThreadKeysContiguous ==
    thread_keys(db) = {thread_key(k) : k \in 1..Cardinality(thread_keys(db))}

\* two creations raced for id 1, one overwrote the other, and a third took id 2
C18_Witness ==
    /\ threadLog = <<1, 1, 2>>
    /\ thread_keys(db) = {thread_key(1), thread_key(2)}

\* C19: in every state, under every interleaving, each thread key is thread_k
\* of a record with id k and each reply key is reply_p_r of a record with id r,
\* also after a touch has written back the copy it read earlier (Spec).
C19_IdAgreesWithKey ==
    /\ \A key \in thread_keys(db) :
           \E k \in 1..posts :
               /\ key = thread_key(k)
               /\ de_thread(db[key]) # None
               /\ de_thread(db[key])[1].id = k
    /\ \A key \in reply_keys(db) :
           \E p \in 1..10, r \in 1..posts :
               /\ key = reply_key(p, r)
               /\ de_reply(db[key]) # None
               /\ de_reply(db[key])[1].id = r

\* a worker is about to write back a copy of thread 1 that is no longer what the
\* store holds under thread_1, after two creations were given id 1; a reply is stored
C19_Witness ==
    /\ threadLog = <<1, 1>>
    /\ \E q \in Procs :
           /\ pc[q] = "cr_touch" /\ frame[q].parent_id = 1
           /\ frame[q].thread[1].title # get_thread(db, 1)[1].title
    /\ reply_keys(db) # {}

\* C20: with one worker, every reply insert writes a key that was not in the
\* store, so every reply key stored stands for one reply request, and the ids
\* accepted under one parent increase in the order of creation, also for
\* parents 1 and 10 whose scans overlap (SpecSeq).
C20_NoReplyOverwrite ==
    /\ [](/\ Cardinality(reply_keys(db)) = Len(replyLog) + (IF ReplyWritten(1) THEN 1 ELSE 0)
          /\ \A i \in 1..Len(replyLog), j \in 1..Len(replyLog) :
                 (i < j /\ replyLog[i][1] = replyLog[j][1]) => replyLog[i][2] < replyLog[j][2])
    /\ [][(pc[1] = "cr_insert" /\ pc'[1] = "cr_get") =>
            /\ reply_key(frame[1].parent_id, frame[1].reply_id) \notin DOMAIN db
            /\ Cardinality(reply_keys(db')) = Cardinality(reply_keys(db)) + 1
      ]_vars

\* four replies were accepted, under parents 1 and 10 in turn, and four reply
\* keys are stored
C20_Witness ==
    /\ Len(replyLog) = 4 /\ pc[1] = "idle"
    /\ replyLog[1][1] = 10 /\ replyLog[2][1] = 1 /\ replyLog[3][1] = 10 /\ replyLog[4][1] = 1
    /\ Cardinality(reply_keys(db)) = 4

====
